---- MODULE Spec2Model ----
(***************************************************************************)
(* Notebook reservation / evaluation lifecycle.                            *)
(*                                                                         *)
(* The store is the Notebook table (one row per idcad).  The HTTP          *)
(* handlers of NotebookAPI run concurrently; every await on a repository   *)
(* call is a suspension point, so each store round trip of a handler is    *)
(* one action and the actions of different requests interleave freely.     *)
(***************************************************************************)
EXTENDS Integers, Sequences, FiniteSets, Bags, TLC

(* ------------------------------ bounds --------------------------------- *)
NumNotebooks == 2       \* rows of the Notebook table: idcad 1..NumNotebooks
NumVolunteers == 2      \* rows of the Volunteer table: idvol 1..NumVolunteers
MaxReq == 3             \* HTTP requests received in one behaviour
MaxClock == 2           \* values the wall clock takes: 1..MaxClock

(* ------------------------------ values --------------------------------- *)
NULL == 0               \* SQL NULL / JS null of an id or a date column
NullText == "NULL"      \* SQL NULL of a text column

NotebookIds == 1..NumNotebooks
Volunteers == 1..NumVolunteers
\* ids a request can carry: the last one is in no table
RequestNotebookIds == 1..(NumNotebooks + 1)
RequestVolunteerIds == 1..(NumVolunteers + 1)

Texts == {"orig", "edit"}
Conclusions == {"Good", "Poor"}

VARIABLES
    notebooks,   \* the Notebook table: idcad -> row
    now,         \* the wall clock read by new Date()
    reqs         \* the requests received: a bag of handler activation records

vars == <<notebooks, now, reqs>>

(* --------------------------- the stored row ---------------------------- *)
\* A notebook as the batch import creates it: unreserved, unevaluated.
\* temas stands for the columns 'tema 1'..'tema 10', respostas for a1..a13.
NewRow ==
    [ idvol |-> NULL, datareserva |-> NULL, carimbo |-> NULL,
      unidade |-> "orig", temas |-> "orig", conteudos |-> "orig",
      respostas |-> "orig", conclusao |-> NullText, exclusao |-> NullText ]

\* The bodies PUT /evaluation/{notebookId} is exercised with.  The edited
\* content fields move together to keep the input set small.
EvaluateNotebookEntities ==
    { e \in [ idvol : Volunteers, studentPrisonUnit : Texts, subjects : Texts,
              relevantContent : Texts, answers : Texts,
              conclusion : Conclusions, archivesExclusion : BOOLEAN ] :
        /\ e.subjects = e.studentPrisonUnit
        /\ e.relevantContent = e.studentPrisonUnit
        /\ e.answers = e.studentPrisonUnit
        /\ e.archivesExclusion = (e.studentPrisonUnit = "edit")
        /\ (e.conclusion = "Poor") = (e.studentPrisonUnit = "edit") }

(* ------------------------------ mappers -------------------------------- *)
notebookModelToEntity(idcad, row) ==
    [ idcad |-> idcad,
      idvol |-> row.idvol,
      studentPrisonUnit |-> row.unidade,
      subjects |-> row.temas,
      relevantContent |-> row.conteudos,
      answers |-> row.respostas,
      conclusion |-> row.conclusao,
      archivesExclusion |-> (row.exclusao = "SIM"),
      evaluatedDate |-> row.carimbo,
      reservationDate |-> row.datareserva ]

\* an evaluation that releases the notebook instead of stamping it
evaluateNotebookEntityToEvaluateNotebookModel_Releases(notebook, date) ==
    [ idvol |-> NULL,
      unidade |-> notebook.studentPrisonUnit,
      temas |-> notebook.subjects,
      conteudos |-> notebook.relevantContent,
      respostas |-> notebook.answers,
      conclusao |-> notebook.conclusion,
      exclusao |-> IF notebook.archivesExclusion THEN "SIM" ELSE "NAO",
      datareserva |-> NULL,
      carimbo |-> NULL ]

\* The column values an evaluation writes; date is the new Date() it read.
evaluateNotebookEntityToEvaluateNotebookModel(notebook, date) ==
    [ idvol |-> notebook.idvol,
      unidade |-> notebook.studentPrisonUnit,
      temas |-> notebook.subjects,
      conteudos |-> notebook.relevantContent,
      respostas |-> notebook.answers,
      conclusao |-> notebook.conclusion,
      exclusao |-> IF notebook.archivesExclusion THEN "SIM" ELSE "NAO",
      carimbo |-> date ]

\* a reservation that also rewrites a content column
ReserveValues_TouchesContent(idvol, date) ==
    [ idvol |-> idvol, datareserva |-> date, unidade |-> "edit" ]

\* The column values a reservation writes.
ReserveValues(idvol, date) ==
    [ idvol |-> idvol, datareserva |-> date ]

(* --------------------------- where clauses ----------------------------- *)
\* saveNotebookEvaluation without its 'Carimbo de data/hora': null condition
EvaluationWhere_Unconditional(row) ==
    TRUE

\* saveNotebookEvaluation with a condition on datareserva added
EvaluationWhere_RequiresReservation(row) ==
    /\ row.carimbo = NULL
    /\ row.datareserva # NULL

EvaluationWhere(row) ==
    row.carimbo = NULL

\* reserveNotebookForVolunteer without its datareserva: null condition
ReserveWhere_IgnoresReservation(row) ==
    row.carimbo = NULL

\* reserveNotebookForVolunteer without its 'Carimbo de data/hora': null condition
ReserveWhere_IgnoresEvaluation(row) ==
    row.datareserva = NULL

ReserveWhere(row) ==
    /\ row.datareserva = NULL
    /\ row.carimbo = NULL

\* getReservedNotebooksByIdVol without its 'Carimbo de data/hora': null condition
ReservedWhere_IgnoresEvaluation(row, idvol) ==
    /\ row.idvol = idvol
    /\ row.datareserva = NULL

\* getReservedNotebooksByIdVol without its datareserva: null condition
ReservedWhere_IgnoresReservation(row, idvol) ==
    /\ row.idvol = idvol
    /\ row.carimbo = NULL

ReservedWhere(row, idvol) ==
    /\ row.idvol = idvol
    /\ row.carimbo = NULL
    /\ row.datareserva = NULL

\* getAvailableNotebooks without its 'Carimbo de data/hora' IS NULL condition
AvailableWhere_IgnoresEvaluation(row) ==
    row.datareserva = NULL

\* getAvailableNotebooks without its datareserva IS NULL condition
AvailableWhere_IgnoresReservation(row) ==
    row.carimbo = NULL

AvailableWhere(row) ==
    /\ row.datareserva = NULL
    /\ row.carimbo = NULL

\* a count that takes every row assigned to the volunteer, evaluated or not
CountWhere_IgnoresEvaluation(row, idvol) ==
    row.idvol = idvol

CountWhere(row, idvol) ==
    /\ row.idvol = idvol
    /\ row.carimbo # NULL

(* ------------------------- store primitives ---------------------------- *)
\* row with the columns of values overwritten
SetColumns(row, values) ==
    [ c \in DOMAIN row |-> IF c \in DOMAIN values THEN values[c] ELSE row[c] ]

\* an update whose where clause has lost its idcad: every row is written
UpdateRow_EveryRow(table, idcad, matches, values) ==
    IF idcad \in DOMAIN table /\ matches
        THEN [ n \in DOMAIN table |-> SetColumns(table[n], values) ]
        ELSE table

\* Notebook.update(values, {where: {idcad, ...}}): the table after it
UpdateRow(table, idcad, matches, values) ==
    IF idcad \in DOMAIN table /\ matches
        THEN [table EXCEPT ![idcad] = SetColumns(table[idcad], values)]
        ELSE table

\* ... and the number of rows it changed
NumUpdated(table, idcad, matches) ==
    IF idcad \in DOMAIN table /\ matches THEN 1 ELSE 0

\* Notebook.findOne({where: {idcad}}) mapped to an entity: <<>> is null
getNotebookById(table, idcad) ==
    IF idcad \in DOMAIN table
        THEN << notebookModelToEntity(idcad, table[idcad]) >>
        ELSE << >>

\* Notebook.findAll in the table's primary-key order
RECURSIVE FindAllFrom(_, _, _)
FindAllFrom(table, idcad, keep) ==
    IF idcad > NumNotebooks THEN << >>
    ELSE (IF keep[idcad]
            THEN << notebookModelToEntity(idcad, table[idcad]) >>
            ELSE << >>) \o FindAllFrom(table, idcad + 1, keep)

getReservedNotebooksByIdVol(table, idvol) ==
    FindAllFrom(table, 1, [n \in NotebookIds |-> ReservedWhere(table[n], idvol)])

getAvailableNotebooks(table) ==
    FindAllFrom(table, 1, [n \in NotebookIds |-> AvailableWhere(table[n])])

countEvaluatedNotebooksByIdVol(table, idvol) ==
    Cardinality({ n \in NotebookIds : CountWhere(table[n], idvol) })

\* volunteerRepository.getVolunteerById(idvol) finds a volunteer
VolunteerExists(idvol) ==
    idvol \in Volunteers

(* ------------------------------ requests ------------------------------- *)
\* An activation record.  notebookData, partial and result are sequences:
\* << >> is null / nothing yet.  status is the HTTP status, NULL until the
\* handler returns or throws.  writes counts the Notebook.update calls the
\* store has executed for the request.  Requests carry no identity: two
\* requests with equal records are interchangeable, so they are kept in a bag.
Request(op, idvol, notebookId, notebookData) ==
    [ op |-> op, pc |-> "start", idvol |-> idvol, notebookId |-> notebookId,
      notebookData |-> notebookData, date |-> NULL, writes |-> 0,
      partial |-> << >>, result |-> << >>, status |-> NULL ]

\* a handler that sends the update again when the repository returns null
Respond_RetriesOnNull(r, status) ==
    IF status = 400 /\ r.writes > 0
        THEN [ r EXCEPT !.pc = "update" ]
        ELSE [ r EXCEPT !.pc = "done", !.status = status ]

\* the handler sends its response
Respond(r, status) ==
    [ r EXCEPT !.pc = "done", !.status = status ]

Requests == BagToSet(reqs)

\* a request is received and runs to its first suspension point as r
Receive(r) ==
    /\ BagCardinality(reqs) < MaxReq
    /\ reqs' = reqs (+) SetToBag({r})

\* request r resumes and runs to its next suspension point as s
Resume(r, s) ==
    reqs' = (reqs (-) SetToBag({r})) (+) SetToBag({s})

Init ==
    /\ notebooks = [ n \in NotebookIds |-> NewRow ]
    /\ now = 1
    /\ reqs = EmptyBag

\* Time passes.
Tick ==
    /\ now < MaxClock
    /\ now' = now + 1
    /\ UNCHANGED <<notebooks, reqs>>

(* ------------- POST /notebooks/reservation (NotebookAPI) --------------- *)
\* the handler with its two existence checks in the other order
ReserveLookup_NotebookFirst(idvol, notebookId) ==
    /\ LET r == [ op |-> "reserve", pc |-> "start", idvol |-> idvol,
                  notebookId |-> notebookId, notebookData |-> << >>,
                  date |-> NULL, writes |-> 0, partial |-> << >>,
                  result |-> << >>, status |-> NULL ]
       IN /\ BagCardinality(reqs) < MaxReq
          /\ reqs' = reqs (+) SetToBag({
                 IF notebookId \notin DOMAIN notebooks
                     THEN [r EXCEPT !.pc = "done", !.status = 404]
                 ELSE IF idvol \notin Volunteers
                     THEN [r EXCEPT !.pc = "done", !.status = 412]
                 ELSE [r EXCEPT !.pc = "update", !.date = now] })
    /\ UNCHANGED <<notebooks, now>>

\* The request arrives; getVolunteerById, then getNotebookById answer (two
\* reads of data no request changes, taken as one step); if both are found
\* the repository reads new Date() and sends the conditional update.
ReserveLookup(idvol, notebookId) ==
    /\ LET r == Request("reserve", idvol, notebookId, << >>)
       IN Receive(IF ~VolunteerExists(idvol)
                      THEN Respond(r, 412)
                  ELSE IF getNotebookById(notebooks, notebookId) = << >>
                      THEN Respond(r, 404)
                  ELSE [r EXCEPT !.pc = "update", !.date = now])
    /\ UNCHANGED <<notebooks, now>>

\* The store executes the conditional update of reserveNotebookForVolunteer;
\* zero rows updated makes the repository return null and the handler throw.
ReserveUpdate(r) ==
    /\ r.op = "reserve"
    /\ r.pc = "update"
    /\ LET n == r.notebookId
           matches == n \in DOMAIN notebooks /\ ReserveWhere(notebooks[n])
           s == [r EXCEPT !.writes = @ + 1]
       IN /\ notebooks' = UpdateRow(notebooks, n, matches,
                                    ReserveValues(r.idvol, r.date))
          /\ Resume(r, IF NumUpdated(notebooks, n, matches) # 0
                           THEN [s EXCEPT !.pc = "refresh"]
                           ELSE Respond(s, 400))
    /\ UNCHANGED now

\* The repository's second getNotebookById answers and the handler returns.
ReserveRefresh(r) ==
    /\ r.op = "reserve"
    /\ r.pc = "refresh"
    /\ LET reservedNotebook == getNotebookById(notebooks, r.notebookId)
       IN Resume(r, IF reservedNotebook = << >>
                        THEN Respond(r, 400)
                        ELSE Respond([r EXCEPT !.result = reservedNotebook], 200))
    /\ UNCHANGED <<notebooks, now>>

(* ---------- PUT /notebooks/evaluation/{notebookId} (NotebookAPI) ------- *)
\* The request arrives and getNotebookById answers; if found the mapper
\* reads new Date() and the repository sends the conditional update.
EvaluateLookup(notebookId, notebookData) ==
    /\ LET r == Request("evaluate", NULL, notebookId, << notebookData >>)
       IN Receive(IF getNotebookById(notebooks, notebookId) = << >>
                      THEN Respond(r, 404)
                      ELSE [r EXCEPT !.pc = "update", !.date = now])
    /\ UNCHANGED <<notebooks, now>>

\* The store executes the conditional update of saveNotebookEvaluation.
EvaluateUpdate(r) ==
    /\ r.op = "evaluate"
    /\ r.pc = "update"
    /\ LET n == r.notebookId
           matches == n \in DOMAIN notebooks /\ EvaluationWhere(notebooks[n])
           s == [r EXCEPT !.writes = @ + 1]
       IN /\ notebooks' =
                UpdateRow(notebooks, n, matches,
                          evaluateNotebookEntityToEvaluateNotebookModel(
                              r.notebookData[1], r.date))
          /\ Resume(r, IF NumUpdated(notebooks, n, matches) # 0
                           THEN [s EXCEPT !.pc = "refresh"]
                           ELSE Respond(s, 400))
    /\ UNCHANGED now

\* The repository's second getNotebookById answers and the handler returns.
EvaluateRefresh(r) ==
    /\ r.op = "evaluate"
    /\ r.pc = "refresh"
    /\ LET evaluatedNotebook == getNotebookById(notebooks, r.notebookId)
       IN Resume(r, IF evaluatedNotebook = << >>
                        THEN Respond(r, 400)
                        ELSE Respond([r EXCEPT !.result = evaluatedNotebook], 200))
    /\ UNCHANGED <<notebooks, now>>

(* ------------- GET /notebooks/available/{idvol} (NotebookAPI) ---------- *)
\* The request arrives and getAvailableNotebooks answers.
ListAvailable(idvol) ==
    /\ Receive([Request("list", idvol, NULL, << >>) EXCEPT
                    !.pc = "getReserved",
                    !.partial = getAvailableNotebooks(notebooks)])
    /\ UNCHANGED <<notebooks, now>>

\* getReservedNotebooksByIdVol answers and the handler returns
\* [...reservedNotebooks, ...availableNotebooks].
ListReserved(r) ==
    /\ r.op = "list"
    /\ r.pc = "getReserved"
    /\ LET reservedNotebooks == getReservedNotebooksByIdVol(notebooks, r.idvol)
       IN Resume(r, Respond([r EXCEPT !.result = reservedNotebooks \o r.partial],
                            200))
    /\ UNCHANGED <<notebooks, now>>

(* --------------- GET /notebooks/count/{idvol} (NotebookAPI) ------------ *)
\* The request arrives, countEvaluatedNotebooksByIdVol answers and the
\* handler returns {count}.
CountEvaluated(idvol) ==
    /\ Receive(Respond([Request("count", idvol, NULL, << >>) EXCEPT
                            !.result = << [count |->
                                countEvaluatedNotebooksByIdVol(notebooks, idvol)] >>],
                       200))
    /\ UNCHANGED <<notebooks, now>>

(* --------------------------- specification ----------------------------- *)
Next ==
    \/ Tick
    \/ \E v \in RequestVolunteerIds, n \in RequestNotebookIds : ReserveLookup(v, n)
    \/ \E r \in Requests : ReserveUpdate(r)
    \/ \E r \in Requests : ReserveRefresh(r)
    \/ \E n \in RequestNotebookIds, e \in EvaluateNotebookEntities :
            EvaluateLookup(n, e)
    \/ \E r \in Requests : EvaluateUpdate(r)
    \/ \E r \in Requests : EvaluateRefresh(r)
    \/ \E v \in RequestVolunteerIds : ListAvailable(v)
    \/ \E r \in Requests : ListReserved(r)
    \/ \E v \in RequestVolunteerIds : CountEvaluated(v)

Spec == Init /\ [][Next]_vars

(* ======================================================================= *)
(*                              properties                                 *)
(* ======================================================================= *)
\* number of requests of the bag that are in S
Copies(S) ==
    BagCardinality([ r \in S \cap Requests |-> reqs[r] ])

\* the requests a step has produced or moved to a new position
Stepped ==
    { s \in BagToSet(reqs') : CopiesIn(s, reqs') > CopiesIn(s, reqs) }

\* repository calls on notebook n whose conditional update the store has run
Executed(op, n) ==
    { r \in Requests : r.op = op /\ r.notebookId = n /\ r.writes > 0 }

\* ... and those of them that updated a row / that updated none
Won(op, n) ==
    { r \in Executed(op, n) : r.pc = "refresh" \/ r.status = 200 }

Lost(op, n) ==
    { r \in Executed(op, n) : r.pc = "done" /\ r.status = 400 }

IsReserved(n) == notebooks[n].datareserva # NULL
IsEvaluated(n) == notebooks[n].carimbo # NULL
IsAvailable(n) == ~IsReserved(n) /\ ~IsEvaluated(n)

(* ------------------------------- C1 ------------------------------------ *)
\* C1: at most one claim per notebook ever succeeds.  Whenever the store has
\* run the conditional updates of one or more reserve calls on a notebook that
\* no evaluate call has written, exactly one of them updated the row, all the
\* others got zero rows (null, status 400), the winner's handler answers 200
\* with a notebook, and the row is reserved by the winner.
C1_ExactlyOneClaimWins ==
    \A n \in NotebookIds :
        /\ Copies(Won("reserve", n)) <= 1
        /\ Copies(Won("reserve", n)) + Copies(Lost("reserve", n))
                = Copies(Executed("reserve", n))
        /\ (Executed("reserve", n) # {} /\ Executed("evaluate", n) = {}) =>
                /\ Copies(Won("reserve", n)) = 1
                /\ \A w \in Won("reserve", n) :
                        /\ notebooks[n].idvol = w.idvol
                        /\ notebooks[n].datareserva = w.date
                        /\ IsReserved(n) /\ ~IsEvaluated(n)
                        /\ w.pc = "done" => w.status = 200 /\ w.result # << >>

\* Two volunteers raced for one notebook: the loser has its 400 while the
\* winner is still waiting for the refreshed notebook.
C1_Witness ==
    \E n \in NotebookIds :
        /\ Executed("evaluate", n) = {}
        /\ \E w \in Won("reserve", n), l \in Lost("reserve", n) :
                w.idvol # l.idvol /\ w.pc = "refresh"

(* ------------------------------- C2 ------------------------------------ *)
\* the columns of row hold what the evaluation request r wrote
Persisted(row, r) ==
    LET values == evaluateNotebookEntityToEvaluateNotebookModel(
                      r.notebookData[1], r.date)
    IN \A c \in DOMAIN values : row[c] = values[c]

\* C2: at most one evaluation per notebook ever succeeds.  Whenever the store
\* has run the conditional updates of one or more evaluate calls on a
\* notebook, exactly one of them updated the row, all the others got zero
\* rows (null, status 400), and the row is evaluated and holds exactly the
\* columns the winning call wrote.
C2_ExactlyOneEvaluationWins ==
    \A n \in NotebookIds :
        /\ Copies(Won("evaluate", n)) <= 1
        /\ Copies(Won("evaluate", n)) + Copies(Lost("evaluate", n))
                = Copies(Executed("evaluate", n))
        /\ Executed("evaluate", n) # {} =>
                /\ Copies(Won("evaluate", n)) = 1
                /\ IsEvaluated(n)
                /\ \A w \in Won("evaluate", n) :
                        /\ Persisted(notebooks[n], w)
                        /\ w.pc = "done" => w.status = 200 /\ w.result # << >>

\* Two evaluations with different fields raced for a reserved notebook: one
\* won, the other was rejected.
C2_Witness ==
    \E n \in NotebookIds :
        /\ IsReserved(n)
        /\ Won("reserve", n) # {}
        /\ \E w \in Won("evaluate", n), l \in Lost("evaluate", n) :
                /\ w.notebookData # l.notebookData
                /\ w.pc = "refresh"

(* ------------------------------- C3 ------------------------------------ *)
\* C3: EVALUATED is terminal.  No step changes any column of a row whose
\* 'Carimbo de data/hora' is set, and every reserve or evaluate call whose
\* conditional update the store runs on such a row gets zero rows and
\* answers 400.
C3_EvaluatedIsTerminal ==
    [][ /\ \A n \in NotebookIds :
              IsEvaluated(n) => notebooks'[n] = notebooks[n]
        /\ \A r \in Requests :
              ( /\ ReserveUpdate(r) \/ EvaluateUpdate(r)
                /\ r.notebookId \in NotebookIds
                /\ IsEvaluated(r.notebookId) ) =>
              /\ notebooks' = notebooks
              /\ Stepped = { Respond([r EXCEPT !.writes = 1], 400) }
      ]_vars

\* A notebook was evaluated, and afterwards a reserve call and another
\* evaluate call on it were both rejected.
C3_Witness ==
    \E n \in NotebookIds :
        /\ IsEvaluated(n)
        /\ \E w \in Won("evaluate", n) : w.pc = "done"
        /\ Lost("reserve", n) # {}
        /\ Lost("evaluate", n) # {}

(* ------------------------------- C4 ------------------------------------ *)
\* C4: the lifecycle never skips from AVAILABLE to EVALUATED: a row whose
\* 'Carimbo de data/hora' is set has datareserva set.
C4_NoEvaluationWithoutReservation ==
    \A n \in NotebookIds : IsEvaluated(n) => IsReserved(n)

(* ------------------------------- C5 ------------------------------------ *)
\* C5: a reservation is never cleared or reassigned: once idvol or
\* datareserva of a row is set, no step changes it.
C5_ReservationNeverReassigned ==
    [][ \A n \in NotebookIds :
          /\ notebooks[n].idvol # NULL =>
                notebooks'[n].idvol = notebooks[n].idvol
          /\ notebooks[n].datareserva # NULL =>
                notebooks'[n].datareserva = notebooks[n].datareserva
      ]_vars

(* ------------------------------- C6 ------------------------------------ *)
\* C6: an evaluate request is accepted only from the volunteer who holds the
\* reservation: whenever the store runs an evaluate call's update on a
\* reserved row and updates it, the idvol the call carries is the row's idvol.
C6_EvaluatorHoldsReservation ==
    [][ \A r \in Requests :
          ( /\ EvaluateUpdate(r)
            /\ \E s \in Stepped : s.pc = "refresh"
            /\ IsReserved(r.notebookId) ) =>
          notebooks[r.notebookId].idvol = r.notebookData[1].idvol
      ]_vars

(* ------------------------------- C7 ------------------------------------ *)
\* the idcad of the entities of a list
Ids(list) ==
    { list[i].idcad : i \in DOMAIN list }

\* n is reserved by v and not evaluated
IsReservedBy(n, v) ==
    /\ notebooks[n].idvol = v
    /\ IsReserved(n)
    /\ ~IsEvaluated(n)

\* C7: the list GET /available/{idvol} returns holds every notebook that is
\* accessible to the volunteer when the handler returns: every notebook the
\* volunteer holds a reservation on, and every AVAILABLE notebook.
C7_ListHoldsEveryAccessible ==
    [][ \A r \in Requests : ListReserved(r) =>
          \A s \in Stepped, n \in NotebookIds :
              (IsAvailable(n) \/ IsReservedBy(n, r.idvol)) => n \in Ids(s.result)
      ]_vars

(* ------------------------------- C8 ------------------------------------ *)
\* C8: getAvailableNotebooks returns, once each, exactly the notebooks whose
\* datareserva and 'Carimbo de data/hora' are both null in the table it
\* reads, and the entities it returns show both dates null.
C8_ListAvailableExact ==
    [][ \A v \in RequestVolunteerIds : ListAvailable(v) =>
          \A s \in Stepped :
              /\ Ids(s.partial) = { n \in NotebookIds : IsAvailable(n) }
              /\ Len(s.partial) = Cardinality(Ids(s.partial))
              /\ \A i \in DOMAIN s.partial :
                    /\ s.partial[i].reservationDate = NULL
                    /\ s.partial[i].evaluatedDate = NULL
      ]_vars

\* A list request read the available notebooks while one notebook was
\* reserved, another evaluated without a reservation, and got neither.
C8_Witness ==
    \E r \in Requests :
        /\ r.op = "list"
        /\ r.pc = "getReserved"
        /\ \E n \in NotebookIds : IsReserved(n) /\ n \notin Ids(r.partial)
        /\ \E n \in NotebookIds :
                ~IsReserved(n) /\ IsEvaluated(n) /\ n \notin Ids(r.partial)
        /\ \A q \in Requests : q.op = "list" \/ q.pc = "done"

(* ------------------------------- C9 ------------------------------------ *)
\* what getReservedNotebooksByIdVol returned to the finished list request r
ReservedPart(r) ==
    SubSeq(r.result, 1, Len(r.result) - Len(r.partial))

\* C9: the entities getReservedNotebooksByIdVol(v) returns are never
\* reserved by a volunteer other than v and never evaluated.
C9_ListReservedOnlyOwnUnevaluated ==
    \A r \in Requests :
        (r.op = "list" /\ r.pc = "done") =>
            \A i \in DOMAIN ReservedPart(r) :
                /\ ReservedPart(r)[i].idvol \in {NULL, r.idvol}
                /\ ReservedPart(r)[i].evaluatedDate = NULL

\* A volunteer's list returned while a notebook was reserved by another
\* volunteer and another notebook carried the volunteer's idvol and was
\* evaluated.
C9_Witness ==
    \E r \in Requests :
        /\ r.op = "list"
        /\ r.pc = "done"
        /\ r.idvol \in Volunteers
        /\ \E n \in NotebookIds :
                IsReserved(n) /\ ~IsEvaluated(n) /\ notebooks[n].idvol # r.idvol
        /\ \E n \in NotebookIds :
                IsEvaluated(n) /\ notebooks[n].idvol = r.idvol

(* ------------------------------- C10 ----------------------------------- *)
\* C10: countEvaluatedNotebooksByIdVol(v) is the number of rows with
\* idvol = v and 'Carimbo de data/hora' set; it is 0 for every volunteer
\* while no notebook is evaluated; and a notebook whose claim v won and that
\* was then evaluated is counted for v and for no other volunteer.
C10_CountsEvaluatedForClaimant ==
    /\ \A v \in RequestVolunteerIds :
          /\ countEvaluatedNotebooksByIdVol(notebooks, v) =
                Cardinality({ n \in NotebookIds :
                                notebooks[n].idvol = v /\ IsEvaluated(n) })
          /\ (\A n \in NotebookIds : ~IsEvaluated(n)) =>
                countEvaluatedNotebooksByIdVol(notebooks, v) = 0
    /\ \A r \in Requests :
          (r.op = "count" /\ r.pc = "done") =>
              r.result[1].count <= Cardinality({ n \in NotebookIds : IsEvaluated(n) })
    /\ \A n \in NotebookIds :
          \A w \in Won("reserve", n) :
              IsEvaluated(n) =>
                  \A v \in RequestVolunteerIds :
                      CountWhere(notebooks[n], v) = (v = w.idvol)

(* ------------------------------- C11 ----------------------------------- *)
\* C11: outcomes of POST /reservation.  The lookup step answers 412 exactly
\* when the volunteer does not exist (whether or not the notebook exists),
\* 404 exactly when the volunteer exists and the notebook does not, and in
\* both cases the request is over without any update sent and no row
\* changed.  The update step answers 400 exactly when the conditional
\* update matched no row; a request that answered 404 or 412 never writes.
C11_ReserveOutcomes ==
    [][ /\ \A v \in RequestVolunteerIds, n \in RequestNotebookIds :
              ReserveLookup(v, n) =>
                  /\ notebooks' = notebooks
                  /\ \A s \in Stepped :
                        /\ (s.status = 412) = (v \notin Volunteers)
                        /\ (s.status = 404) =
                              (v \in Volunteers /\ n \notin NotebookIds)
                        /\ s.status \in {412, 404, NULL}
                        /\ (s.status # NULL) = (s.pc = "done")
                        /\ s.writes = 0
        /\ \A r \in Requests :
              ReserveUpdate(r) =>
                  \A s \in Stepped :
                      /\ (s.status = 400) = ~ReserveWhere(notebooks[r.notebookId])
                      /\ (s.status = 400) = (notebooks' = notebooks)
                      /\ s.status \in {400, NULL}
        /\ \A r \in Requests :
              (r.op = "reserve" /\ r.status \in {404, 412}) =>
                  r.writes = 0 /\ r.pc = "done"
      ]_vars

\* A reserve for an unknown volunteer and an unknown notebook answered 412,
\* and a reserve for a known pair answered 400 after its update matched no
\* row.
C11_Witness ==
    /\ \E r \in Requests :
          /\ r.op = "reserve" /\ r.status = 412
          /\ r.idvol \notin Volunteers /\ r.notebookId \notin NotebookIds
    /\ \E r \in Requests :
          r.op = "reserve" /\ r.status = 400 /\ r.writes = 1

(* ------------------------------- C12 ----------------------------------- *)
\* C12: outcomes of PUT /evaluation/{notebookId}.  The lookup step answers
\* 404 exactly when the notebook does not exist, with no update sent and no
\* row changed.  The update step answers 400 exactly when the conditional
\* update matched no row, and then the row is evaluated already and the
\* step changes no row.  A request that answered 400 always finds its
\* notebook evaluated; one that answered 404 never writes.
C12_EvaluateOutcomes ==
    [][ /\ \A n \in RequestNotebookIds, e \in EvaluateNotebookEntities :
              EvaluateLookup(n, e) =>
                  /\ notebooks' = notebooks
                  /\ \A s \in Stepped :
                        /\ (s.status = 404) = (n \notin NotebookIds)
                        /\ s.status \in {404, NULL}
                        /\ (s.status # NULL) = (s.pc = "done")
                        /\ s.writes = 0
        /\ \A r \in Requests :
              EvaluateUpdate(r) =>
                  \A s \in Stepped :
                      /\ (s.status = 400) = ~EvaluationWhere(notebooks[r.notebookId])
                      /\ (s.status = 400) = (notebooks' = notebooks)
                      /\ s.status = 400 => IsEvaluated(r.notebookId)
                      /\ s.status \in {400, NULL}
        /\ \A r \in Requests :
              /\ (r.op = "evaluate" /\ r.status = 404) =>
                    r.writes = 0 /\ r.pc = "done"
              /\ (r.op = "evaluate" /\ r.status = 400) =>
                    IsEvaluated(r.notebookId)
      ]_vars

\* An evaluation of an unknown notebook answered 404 and an evaluation of
\* an evaluated notebook answered 400.
C12_Witness ==
    /\ \E r \in Requests :
          r.op = "evaluate" /\ r.status = 404 /\ r.notebookId \notin NotebookIds
    /\ \E r \in Requests :
          /\ r.op = "evaluate" /\ r.status = 400 /\ r.writes = 1
          /\ ~Persisted(notebooks[r.notebookId], r)

(* ------------------------------- C13 ----------------------------------- *)
\* C13: no partial reservation is observable: in every row idvol is set if
\* and only if datareserva is set.
C13_ReservedByIffReservedAt ==
    \A n \in NotebookIds :
        (notebooks[n].idvol # NULL) = (notebooks[n].datareserva # NULL)

(* ------------------------------- C14 ----------------------------------- *)
\* C14: retrying a claim never double-claims.  Every reserve call whose
\* conditional update the store runs on a reserved, unevaluated row gets
\* zero rows and answers 400, whoever the caller is, and the step leaves
\* idvol and datareserva (and every other column) as they were.
C14_ClaimOnReservedIsRejected ==
    [][ \A r \in Requests :
          ( /\ ReserveUpdate(r)
            /\ IsReserved(r.notebookId)
            /\ ~IsEvaluated(r.notebookId) ) =>
          /\ notebooks'[r.notebookId].idvol = notebooks[r.notebookId].idvol
          /\ notebooks'[r.notebookId].datareserva =
                notebooks[r.notebookId].datareserva
          /\ notebooks' = notebooks
          /\ Stepped = { Respond([r EXCEPT !.writes = 1], 400) }
      ]_vars

\* On a reserved, unevaluated notebook the holder's own second claim and
\* another volunteer's claim were both rejected; the reservation stands.
C14_Witness ==
    \E n \in NotebookIds :
        /\ IsReserved(n) /\ ~IsEvaluated(n)
        /\ \E w \in Won("reserve", n) :
              /\ w.pc = "done"
              /\ notebooks[n].idvol = w.idvol
              /\ notebooks[n].datareserva = w.date
              /\ \E l \in Lost("reserve", n) : l.idvol = w.idvol
              /\ \E l \in Lost("reserve", n) : l.idvol # w.idvol

(* ------------------------------- C15 ----------------------------------- *)
\* C15: the notebook a successful POST /reservation returns shows the
\* caller as idvol and a reservation date.
C15_ClaimResultShowsClaimant ==
    \A r \in Requests :
        (r.op = "reserve" /\ r.status = 200) =>
            /\ r.result # << >>
            /\ r.result[1].idcad = r.notebookId
            /\ r.result[1].idvol = r.idvol
            /\ r.result[1].reservationDate # NULL

(* ------------------------------- C16 ----------------------------------- *)
\* C16: the list GET /available/{idvol} returns holds no notebook twice,
\* whatever claim and evaluate steps ran between its two reads.
C16_ListHasNoDuplicates ==
    \A r \in Requests :
        (r.op = "list" /\ r.pc = "done") =>
            Len(r.result) = Cardinality(Ids(r.result))

\* A volunteer's list was returned holding, as available, a notebook the
\* same volunteer has reserved by now.
C16_Witness ==
    \E r \in Requests :
        /\ r.op = "list"
        /\ r.pc = "done"
        /\ \E n \in Ids(r.result) : IsReservedBy(n, r.idvol)
        /\ Len(r.result) = NumNotebooks

(* ------------------------------- C17 ----------------------------------- *)
\* the content columns: prison unit, subject labels, relevant-content note,
\* answers
ContentColumns == {"unidade", "temas", "conteudos", "respostas"}

\* C17 as stated: the content columns of every row hold, in every reachable
\* state, the values the row was created with.
C17_ContentNeverChanges ==
    \A n \in NotebookIds :
        \A c \in ContentColumns : notebooks[n][c] = NewRow[c]

\* C17 as amended: the content columns of a row that is not evaluated hold
\* the values it was created with, whatever claims and evaluations were
\* attempted; those of an evaluated row hold the values the one winning
\* evaluation wrote, whatever was attempted afterwards.
C17_ContentChangesOnlyByWinningEvaluation ==
    \A n \in NotebookIds :
        IF IsEvaluated(n)
            THEN \E w \in Won("evaluate", n) :
                    LET values == evaluateNotebookEntityToEvaluateNotebookModel(
                                      w.notebookData[1], w.date)
                    IN \A c \in ContentColumns : notebooks[n][c] = values[c]
            ELSE \A c \in ContentColumns : notebooks[n][c] = NewRow[c]

\* An evaluation with edited content won on a reserved notebook and a later
\* evaluation carrying the original content was rejected: the edited
\* content stands.
C17_Witness ==
    \E n \in NotebookIds :
        /\ IsEvaluated(n)
        /\ Won("reserve", n) # {}
        /\ \A c \in ContentColumns : notebooks[n][c] = "edit"
        /\ \E l \in Lost("evaluate", n) : l.notebookData[1].subjects = "orig"

(* ------------------------------- C18 ----------------------------------- *)
\* C18: the update of a claim that matches its row sets idvol to the
\* claiming volunteer and datareserva to the date the call took, and nothing
\* else: every other column of the row keeps its value, the evaluation date
\* and the evaluation's conclusion and exclusion flag stay null, and every
\* other row of the table is unchanged.
C18_ClaimWritesOnlyReservation ==
    [][ \A r \in Requests :
            ( /\ ReserveUpdate(r)
              /\ r.notebookId \in NotebookIds
              /\ ReserveWhere(notebooks[r.notebookId]) ) =>
                LET n == r.notebookId
                IN /\ notebooks'[n].idvol = r.idvol
                   /\ notebooks'[n].datareserva = r.date
                   /\ r.date # NULL
                   /\ \A c \in DOMAIN NewRow \ {"idvol", "datareserva"} :
                         notebooks'[n][c] = notebooks[n][c]
                   /\ notebooks'[n].carimbo = NULL
                   /\ notebooks'[n].conclusao = NullText
                   /\ notebooks'[n].exclusao = NullText
                   /\ \A m \in NotebookIds \ {n} : notebooks'[m] = notebooks[m]
      ]_vars

\* A claim has won on a notebook while another notebook was already
\* evaluated with edited content: the claimed row differs from a new row in
\* idvol and datareserva only, and the other row still holds its evaluation.
C18_Witness ==
    \E n \in NotebookIds, m \in NotebookIds :
        /\ n # m
        /\ \E w \in Won("reserve", n) :
              notebooks[n] = [NewRow EXCEPT !.idvol = w.idvol,
                                            !.datareserva = w.date]
        /\ \E e \in Won("evaluate", m) :
              /\ Persisted(notebooks[m], e)
              /\ notebooks[m].temas = "edit"

(* ------------------------------- C19 ----------------------------------- *)
\* C19: a reserve or evaluate request sends at most one conditional update
\* to the store.  Once the store has run it the request only reads or has
\* answered; an update that matched no row comes back as null, and the
\* handler answers 400 with no notebook and takes no further step.
C19_OneUpdateNoRetry ==
    \A r \in Requests :
        r.op \in {"reserve", "evaluate"} =>
            /\ r.writes <= 1
            /\ r.writes = 1 => r.pc \in {"refresh", "done"}
            /\ r.pc = "refresh" => r.writes = 1 /\ r.status = NULL
            /\ r.status = 400 =>
                  /\ r.writes = 1
                  /\ r.pc = "done"
                  /\ r.result = << >>

\* A claim and an evaluation were both rejected on a notebook another
\* evaluation had written: each has sent one update and has answered 400.
C19_Witness ==
    \E n \in NotebookIds :
        /\ Won("evaluate", n) # {}
        /\ \E l \in Lost("reserve", n) : l.writes = 1 /\ l.result = << >>
        /\ \E l \in Lost("evaluate", n) : l.writes = 1 /\ l.result = << >>

(* ------------------------------- C20 ----------------------------------- *)
\* C20: the available set only shrinks.  No step makes available a notebook
\* that is reserved or evaluated: a reservation date and an evaluation date,
\* once set, stay set, and the rows getAvailableNotebooks returns after a
\* step are among those it returned before it.
C20_AvailableOnlyShrinks ==
    [][ /\ \A n \in NotebookIds :
              /\ IsReserved(n) => notebooks'[n].datareserva # NULL
              /\ IsEvaluated(n) => notebooks'[n].carimbo # NULL
              /\ ~IsAvailable(n) => ~AvailableWhere(notebooks'[n])
        /\ Ids(getAvailableNotebooks(notebooks'))
              \subseteq Ids(getAvailableNotebooks(notebooks))
      ]_vars

\* One list holds a notebook and another list does not: the notebook was
\* claimed in between, and getAvailableNotebooks no longer returns it.
C20_Witness ==
    \E n \in NotebookIds :
        /\ IsReserved(n)
        /\ Won("reserve", n) # {}
        /\ n \notin Ids(getAvailableNotebooks(notebooks))
        /\ \E r \in Requests :
              r.op = "list" /\ r.pc = "done" /\ n \in Ids(r.result)
        /\ \E r \in Requests :
              r.op = "list" /\ r.pc = "done" /\ n \notin Ids(r.result)

(* ------------------------------- C21 ----------------------------------- *)
\* the counts of volunteers 1..k added up
RECURSIVE SumOfCounts(_, _)
SumOfCounts(table, k) ==
    IF k = 0
        THEN 0
        ELSE countEvaluatedNotebooksByIdVol(table, k) + SumOfCounts(table, k - 1)

C22_ReservedBeforeEvaluated ==
    \A n \in NotebookIds :
        (IsReserved(n) /\ IsEvaluated(n)) =>
            notebooks[n].datareserva <= notebooks[n].carimbo

(* ------------------------------- C23 ----------------------------------- *)
\* what GET /available/{idvol} returns when both of its reads see table:
\* [...reservedNotebooks, ...availableNotebooks]
getAvailableNotebooksForEvalForIdVol(table, idvol) ==
    getReservedNotebooksByIdVol(table, idvol) \o getAvailableNotebooks(table)

\* on table, a notebook in the lists of two distinct volunteers is
\* available, and a notebook one volunteer has reserved is in no other
\* volunteer's list
ListingIsExclusive(table) ==
    \A v \in Volunteers, w \in Volunteers, n \in NotebookIds :
        (v # w) =>
            LET inV == n \in Ids(getAvailableNotebooksForEvalForIdVol(table, v))
                inW == n \in Ids(getAvailableNotebooksForEvalForIdVol(table, w))
            IN /\ (inV /\ inW) =>
                    table[n].datareserva = NULL /\ table[n].carimbo = NULL
               /\ ( /\ table[n].idvol = v
                    /\ table[n].datareserva # NULL
                    /\ table[n].carimbo = NULL ) => ~inW

\* C23: reservations are exclusive in the listing view.  The list a
\* GET /available/{idvol} handler returns when no write fell between its
\* two reads is the list computed on the one state it read, and on every
\* state the program reaches the lists of two distinct volunteers share
\* available notebooks only and never hold a notebook the other volunteer
\* has reserved.
C23_ListingExclusive ==
    [][ /\ \A r \in Requests :
              (ListReserved(r) /\ r.partial = getAvailableNotebooks(notebooks)) =>
                  \A s \in Stepped :
                      s.result =
                          getAvailableNotebooksForEvalForIdVol(notebooks, r.idvol)
        /\ ListingIsExclusive(notebooks)
        /\ ListingIsExclusive(notebooks')
      ]_vars

\* One notebook is reserved by a volunteer and not evaluated, another is
\* available, and a second volunteer's handler has returned the list of
\* this state: it holds the available notebook and not the reserved one.
C23_Witness ==
    \E v \in Volunteers, w \in Volunteers, n \in NotebookIds, m \in NotebookIds :
        /\ v # w
        /\ IsReservedBy(n, v)
        /\ IsAvailable(m)
        /\ \E r \in Requests :
              /\ r.op = "list"
              /\ r.pc = "done"
              /\ r.idvol = w
              /\ r.result = getAvailableNotebooksForEvalForIdVol(notebooks, w)
              /\ m \in Ids(r.result)
              /\ n \notin Ids(r.result)
        /\ m \in Ids(getAvailableNotebooksForEvalForIdVol(notebooks, v))

====
